---- MODULE Spec2Model ----
(***************************************************************************)
(* Model of io/stream/safe.go: SafeIOStreamWriter (the safe producer       *)
(* stage) and SafeIOStreamHandler (the safe transform stage), composed     *)
(* through IOStream (Data Channel) and ErrorPasser (Error Channel).        *)
(*                                                                         *)
(* IOStream and ErrorPasser are used by safe.go but defined elsewhere in   *)
(* the package; their operations are modelled from the design document     *)
(* (sections 4.1 and 4.2).                                                 *)
(***************************************************************************)
EXTENDS Integers, Sequences, FiniteSets, TLC

\* ---------------------------------------------------------------- bounds
\* Number of calls the writer task may make to DatapackProducer.Next.
MaxCalls == 3
\* Number of BuildStream calls the application makes on one handler stage.
MaxBuilds == 1
\* Capacity of an ErrorPasser made by NewErrorPasser().
DefaultErrCap == 1
\* Capacity of the ErrorPasser a hand-made upstream gives to the handler stage.
UpCap == 2
\* Number of datapacks a hand-made upstream writes.
MaxItems == 2

\* Objects on the heap: 0 is the nil pointer.
Nil == 0
MaxObjs == MaxBuilds + 2
ObjIds == 1..MaxObjs

\* ------------------------------------------------------------- datapacks
\* A Datapack: id 0 is "no datapack"; rc tells whether ReadCloser() is non-nil.
NoItem == [id |-> 0, rc |-> FALSE]
Datapack(i, hasRc) == [id |-> i, rc |-> hasRc]

\* ------------------------------------------------ IOStream (Data Channel)
NewIOStream == [slot |-> NoItem, closed |-> FALSE]
\* Close(): idempotent, the state becomes Closed.
IOStreamClose(st) == [st EXCEPT !.closed = TRUE]
\* Write(item), first half: the item is offered to the reader.
IOStreamOffer(st, d) == [st EXCEPT !.slot = d]
\* Write(item), second half: the call returns once the reader took the item
\* (alreadyClosed = FALSE) or the stream was closed (alreadyClosed = TRUE).
IOStreamWriteReturns(st) == st.slot = NoItem \/ st.closed
IOStreamWriteResult(st) == st.slot # NoItem
\* Read(): returns once an item is offered or the stream is closed.
IOStreamReadReturns(st) == st.closed \/ st.slot # NoItem
IOStreamReadClosed(st) == st.closed
IOStreamTake(st) == [st EXCEPT !.slot = NoItem]

\* ---------------------------------------------- ErrorPasser (Error Channel)
NewErrorPasserWithCap(c) == [q |-> <<>>, cap |-> c, closed |-> FALSE]
NewErrorPasser == NewErrorPasserWithCap(DefaultErrCap)
ErrorPasserCap(e) == e.cap
\* Put(err) blocks while the buffer is full.
ErrorPasserCanPut(e) == Len(e.q) < e.cap
ErrorPasserPut(e, err) == [e EXCEPT !.q = Append(@, err)]
ErrorPasserClose(e) == [e EXCEPT !.closed = TRUE]
\* Check(): the next buffered error; done once closed and empty; an empty open
\* channel is polled again.
ErrorPasserCheckReturns(e) == e.q # <<>> \/ e.closed
ErrorPasserCheckDone(e) == e.q = <<>> /\ e.closed
ErrorPasserTake(e) == [e EXCEPT !.q = Tail(@)]

VARIABLES
    topo,           \* "direct": writer -> consumer; "pipe": writer -> handler -> consumer;
                    \* "manual": hand-made upstream -> handler -> consumer
    streams,        \* heap of IOStream objects
    errs,           \* heap of ErrorPasser objects
    nalloc,         \* number of (IOStream, ErrorPasser) pairs allocated
    crashed,        \* an unrecovered panic ended the process
    \* SafeIOStreamWriter
    wpc,            \* position of the writer task
    wOutputStream,  \* outputStream of SafeIOStreamWriter.Start
    wOutputErr,     \* outputErr of SafeIOStreamWriter.Start
    hist,           \* what DatapackProducer.Next returned, call by call
    wcur,           \* datapack and hasNext in hand
    wres,           \* what each completed outputStream.Write returned
    \* SafeIOStreamHandler
    inputStream, inputErr, outputStream, outputErr, datapackHandler, finalizer,
    loOutputStream, \* the local outputStream of Start (line 105)
    loOutputErr,    \* the local outputErr of Start (line 105)
    hpc,            \* position of the handler task
    hcur,           \* datapack in hand
    herr,           \* error in hand (to be put on outputErr)
    handled,        \* handler invocations: datapack id and outcome
    hreads,         \* the datapacks Read returned to the handler task
    hputs,          \* errors the handler task put on its output ErrorPasser
    finalizerCalls,
    builds,         \* BuildStream calls made by the application
    \* hand-made upstream
    mpc, mItems, mErrs,
    \* consumer of the last stage's pair
    cStream, cErr, recv, cerrs, sawClosed, sawDone, cancelled,
    readsAtCancel   \* datapacks the handler task had read when the consumer closed early

wvars == <<wpc, wOutputStream, wOutputErr, hist, wcur, wres>>
hfields == <<inputStream, inputErr, outputStream, outputErr, datapackHandler, finalizer>>
hvars == <<hfields, loOutputStream, loOutputErr, hpc, hcur, herr, handled, hreads,
           hputs, finalizerCalls, builds>>
mvars == <<mpc, mItems, mErrs>>
cvars == <<cStream, cErr, recv, cerrs, sawClosed, sawDone, cancelled, readsAtCancel>>
heap == <<streams, errs, nalloc>>
vars == <<topo, heap, crashed, wvars, hvars, mvars, cvars>>

\* ------------------------------------------------------------- errors
ProducerErr(k) == <<"producer", k>>
WriterPanicErr(k) == <<"SafeIOStreamWriter panicked", k>>
HandlerErr(i) == <<"handler", i>>
HandlerPanicErr(i) == <<"SafeIOStreamHandler panicked", i>>
UpstreamErr(i) == <<"upstream", i>>

\* ------------------------------------------------- DatapackProducer.Next
\* The k-th call returns a datapack (with or without a byte stream) or nil, with
\* hasNext true or false, or returns an error, or panics. The last call the
\* bound allows ends the loop.
Outcomes(k) ==
    {[kind |-> "item", rc |-> r, hasNext |-> h] :
        r \in BOOLEAN, h \in (IF k < MaxCalls THEN BOOLEAN ELSE {FALSE})}
    \cup (IF k < MaxCalls
          THEN {[kind |-> "nil", rc |-> FALSE, hasNext |-> h] : h \in BOOLEAN}
          ELSE {})
    \cup {[kind |-> "err", rc |-> FALSE, hasNext |-> FALSE],
          [kind |-> "panic", rc |-> FALSE, hasNext |-> FALSE]}

\* ===================================================== SafeIOStreamWriter
\* Start(): builds the output pair, launches the task, returns the pair.
WriterStart ==
    /\ topo # "manual"
    /\ wpc = "idle" /\ ~crashed
    /\ nalloc' = nalloc + 1
    /\ streams' = [streams EXCEPT ![nalloc + 1] = NewIOStream]
    /\ errs' = [errs EXCEPT ![nalloc + 1] = NewErrorPasser]
    /\ wOutputStream' = nalloc + 1
    /\ wOutputErr' = nalloc + 1
    /\ wpc' = "next"
    /\ IF topo = "direct"
       THEN cStream' = nalloc + 1 /\ cErr' = nalloc + 1
       ELSE UNCHANGED <<cStream, cErr>>
    /\ IF topo = "pipe"
       THEN inputStream' = nalloc + 1 /\ inputErr' = nalloc + 1
       ELSE UNCHANGED <<inputStream, inputErr>>
    /\ UNCHANGED <<topo, crashed, hist, wcur, wres, outputStream, outputErr,
                   datapackHandler, finalizer, loOutputStream, loOutputErr, hpc, hcur,
                   herr, handled, hreads, hputs, finalizerCalls, builds, mvars,
                   recv, cerrs, sawClosed, sawDone, cancelled,
                   readsAtCancel>>

\* Line 41-49: one call of Next and the branch taken on its result.
WriterNext ==
    /\ wpc = "next" /\ ~crashed
    /\ \E o \in Outcomes(Len(hist) + 1) :
        /\ hist' = Append(hist, o)
        /\ CASE o.kind = "panic" -> wpc' = "recover" /\ UNCHANGED wcur
             [] o.kind = "err" -> wpc' = "put_err" /\ UNCHANGED wcur
             [] o.kind = "nil" -> wpc' = "next" /\ UNCHANGED wcur
             [] OTHER -> /\ wpc' = "write"
                         /\ wcur' = [d |-> Datapack(Len(hist) + 1, o.rc),
                                     hasNext |-> o.hasNext]
    /\ UNCHANGED <<topo, heap, crashed, wOutputStream, wOutputErr, wres, hvars, mvars, cvars>>

\* Mutant of line 43-44: the error is put and the loop goes on (no break).
WriterPutErrNoBreak ==
    /\ wpc = "put_err" /\ ~crashed
    /\ ErrorPasserCanPut(errs[wOutputErr])
    /\ errs' = [errs EXCEPT ![wOutputErr] = ErrorPasserPut(@, ProducerErr(Len(hist)))]
    /\ wpc' = IF Len(hist) < MaxCalls THEN "next" ELSE "close_err"
    /\ UNCHANGED <<topo, streams, nalloc, crashed, wOutputStream, wOutputErr, hist, wcur,
                   wres, hvars, mvars, cvars>>

\* Line 43-44: outputErr.Put(err); break.
WriterPutErr ==
    /\ wpc = "put_err" /\ ~crashed
    /\ ErrorPasserCanPut(errs[wOutputErr])
    /\ errs' = [errs EXCEPT ![wOutputErr] = ErrorPasserPut(@, ProducerErr(Len(hist)))]
    /\ wpc' = "close_err"
    /\ UNCHANGED <<topo, streams, nalloc, crashed, wOutputStream, wOutputErr, hist, wcur,
                   wres, hvars, mvars, cvars>>

\* Mutant of line 31-34: the panic is recovered but not reported.
WriterRecoverSilent ==
    /\ wpc = "recover" /\ ~crashed
    /\ wpc' = "close_err"
    /\ UNCHANGED <<topo, heap, crashed, wOutputStream, wOutputErr, hist, wcur,
                   wres, hvars, mvars, cvars>>

\* Line 31-34: the deferred recover puts the panic as an error.
WriterRecover ==
    /\ wpc = "recover" /\ ~crashed
    /\ ErrorPasserCanPut(errs[wOutputErr])
    /\ errs' = [errs EXCEPT ![wOutputErr] = ErrorPasserPut(@, WriterPanicErr(Len(hist)))]
    /\ wpc' = "close_err"
    /\ UNCHANGED <<topo, streams, nalloc, crashed, wOutputStream, wOutputErr, hist, wcur,
                   wres, hvars, mvars, cvars>>

\* Mutants of line 52: the loop ignores hasNext; the loop ignores streamClosed.
WriterBreaksIgnoresHasNext(hasNext, streamClosed) == streamClosed

WriterBreaksIgnoresClosed(hasNext, streamClosed) == ~hasNext

\* Line 52: the loop ends after a Write when the producer has no more items or
\* the stream was closed.
WriterBreaks(hasNext, streamClosed) == ~hasNext \/ streamClosed

WriterAfterWrite(hasNext, streamClosed) ==
    IF WriterBreaks(hasNext, streamClosed) THEN "close_err" ELSE "next"

\* Line 51: outputStream.Write(datapack) is entered: a closed stream returns
\* alreadyClosed at once, an open one is offered the datapack.
WriterWrite ==
    /\ wpc = "write" /\ ~crashed
    /\ IF streams[wOutputStream].closed
       THEN /\ wres' = Append(wres, TRUE)
            /\ wpc' = WriterAfterWrite(wcur.hasNext, TRUE)
            /\ UNCHANGED streams
       ELSE /\ streams' = [streams EXCEPT ![wOutputStream] = IOStreamOffer(@, wcur.d)]
            /\ wpc' = "write_wait"
            /\ UNCHANGED wres
    /\ UNCHANGED <<topo, errs, nalloc, crashed, wOutputStream, wOutputErr, hist, wcur,
                   hvars, mvars, cvars>>

\* Line 51-54: outputStream.Write(datapack) returns.
WriterWriteReturn ==
    /\ wpc = "write_wait" /\ ~crashed
    /\ IOStreamWriteReturns(streams[wOutputStream])
    /\ wres' = Append(wres, IOStreamWriteResult(streams[wOutputStream]))
    /\ wpc' = WriterAfterWrite(wcur.hasNext, IOStreamWriteResult(streams[wOutputStream]))
    /\ UNCHANGED <<topo, heap, crashed, wOutputStream, wOutputErr, hist, wcur,
                   hvars, mvars, cvars>>

\* Mutant of line 36-37: the Data Channel is closed first.
WriterCloseStreamFirst ==
    /\ wpc = "close_err" /\ ~crashed
    /\ streams' = [streams EXCEPT ![wOutputStream] = IOStreamClose(@)]
    /\ wpc' = "close_stream"
    /\ UNCHANGED <<topo, errs, nalloc, crashed, wOutputStream, wOutputErr, hist, wcur,
                   wres, hvars, mvars, cvars>>

\* Line 36: outputErr.Close().
WriterCloseErr ==
    /\ wpc = "close_err" /\ ~crashed
    /\ errs' = [errs EXCEPT ![wOutputErr] = ErrorPasserClose(@)]
    /\ wpc' = "close_stream"
    /\ UNCHANGED <<topo, streams, nalloc, crashed, wOutputStream, wOutputErr, hist, wcur,
                   wres, hvars, mvars, cvars>>

\* Line 37: outputStream.Close(); the task ends.
WriterCloseStream ==
    /\ wpc = "close_stream" /\ ~crashed
    /\ streams' = [streams EXCEPT ![wOutputStream] = IOStreamClose(@)]
    /\ wpc' = "done"
    /\ UNCHANGED <<topo, errs, nalloc, crashed, wOutputStream, wOutputErr, hist, wcur,
                   wres, hvars, mvars, cvars>>

WriterStep ==
    \/ WriterStart
    \/ WriterNext
    \/ WriterPutErr
    \/ WriterRecover
    \/ WriterWrite
    \/ WriterWriteReturn
    \/ WriterCloseErr
    \/ WriterCloseStream

\* ==================================================== SafeIOStreamHandler
\* The application holds the handler stage once its upstream pair exists.
HandlerBuilt == topo = "manual" \/ (topo = "pipe" /\ wpc # "idle")

\* Line 88-99: BuildStream makes a new output pair only with both inputs and a
\* handler.
BuildAllocates == inputStream # Nil /\ inputErr # Nil /\ datapackHandler # "nil"

\* Mutant of line 97: the output ErrorPasser gets the upstream capacity.
OutputErrCapSame(inCap) == inCap

\* Line 97: the capacity of the output ErrorPasser.
OutputErrCap(inCap) == inCap + 2

\* Line 96-97: the effect of BuildStream on the stage and the heap.
BuildStreamEffect ==
    IF BuildAllocates
    THEN /\ nalloc' = nalloc + 1
         /\ streams' = [streams EXCEPT ![nalloc + 1] = NewIOStream]
         /\ errs' = [errs EXCEPT ![nalloc + 1] =
                        NewErrorPasserWithCap(OutputErrCap(ErrorPasserCap(errs[inputErr])))]
         /\ outputStream' = nalloc + 1
         /\ outputErr' = nalloc + 1
    ELSE UNCHANGED <<heap, outputStream, outputErr>>

\* Line 88-99: the pair BuildStream returns.
BuildStreamResult ==
    IF inputStream = Nil \/ inputErr = Nil THEN <<Nil, Nil>>
    ELSE IF datapackHandler = "nil" THEN <<inputStream, inputErr>>
    ELSE <<nalloc + 1, nalloc + 1>>

\* BuildStream() called by the application, which reads the first pair it gets.
BuildStream ==
    /\ HandlerBuilt /\ ~crashed
    /\ builds < MaxBuilds
    /\ builds' = builds + 1
    /\ BuildStreamEffect
    /\ IF cStream = Nil
       THEN cStream' = BuildStreamResult[1] /\ cErr' = BuildStreamResult[2]
       ELSE UNCHANGED <<cStream, cErr>>
    /\ UNCHANGED <<topo, crashed, wvars, inputStream, inputErr, datapackHandler, finalizer,
                   loOutputStream, loOutputErr, hpc, hcur, herr, handled, hreads, hputs,
                   finalizerCalls, mvars, recv, cerrs, sawClosed, sawDone, cancelled,
                   readsAtCancel>>

\* Line 103-111: Start() copies the output fields, builds the pair when a copy
\* is nil, and launches the task.
HandlerStart ==
    /\ HandlerBuilt /\ ~crashed
    /\ hpc = "idle"
    /\ loOutputStream' = outputStream
    /\ loOutputErr' = outputErr
    /\ IF outputStream = Nil \/ outputErr = Nil
       THEN BuildStreamEffect
       ELSE UNCHANGED <<heap, outputStream, outputErr>>
    /\ hpc' = "read"
    /\ UNCHANGED <<topo, crashed, wvars, inputStream, inputErr, datapackHandler, finalizer,
                   hcur, herr, handled, hreads, hputs, finalizerCalls, builds, mvars, cvars>>

\* Mutant of line 133-136: a datapack without a byte stream goes to the handler.
HandlerAfterReadNoSkip(d) == "handle"

\* Line 133-136: a datapack whose ReadCloser() is nil is skipped.
HandlerAfterRead(d) == IF d.rc THEN "handle" ELSE "read"

\* Line 128-136: s.inputStream.Read() returns; a closed stream ends the main
\* loop, a datapack without a byte stream is skipped. A nil inputStream panics.
HandlerRead ==
    /\ hpc = "read" /\ ~crashed
    /\ IF inputStream = Nil
       THEN /\ hpc' = "recover"
            /\ herr' = HandlerPanicErr(0)
            /\ UNCHANGED <<streams, hcur, hreads>>
       ELSE /\ IOStreamReadReturns(streams[inputStream])
            /\ IF IOStreamReadClosed(streams[inputStream])
               THEN hpc' = "check" /\ UNCHANGED <<streams, hcur, hreads, herr>>
               ELSE /\ streams' = [streams EXCEPT ![inputStream] = IOStreamTake(@)]
                    /\ hreads' = Append(hreads, streams[inputStream].slot)
                    /\ hcur' = streams[inputStream].slot
                    /\ hpc' = HandlerAfterRead(streams[inputStream].slot)
                    /\ UNCHANGED herr
    /\ UNCHANGED <<topo, errs, nalloc, crashed, wvars, hfields, loOutputStream, loOutputErr,
                   handled, hputs, finalizerCalls, builds, mvars, cvars>>

\* What one invocation of the handler may do.
HandlerResults == {"nil", "err", "panic"}

\* Mutant of line 138-141: the main loop ends after the first handled datapack.
HandlerAfterStops(res) ==
    CASE res = "nil" -> "check"
      [] res = "err" -> "put_herr"
      [] OTHER -> "recover"

\* Mutant of line 138-141: a handler error is treated as a fault.
HandlerAfterErrAsFault(res) ==
    CASE res = "nil" -> "read"
      [] OTHER -> "recover"

\* Line 138-141: the position after the handler returned res.
HandlerAfter(res) ==
    CASE res = "nil" -> "read"
      [] res = "err" -> "put_herr"
      [] OTHER -> "recover"

\* Line 138: s.datapackHandler(ctx, rc); calling a nil handler panics.
HandlerHandle ==
    /\ hpc = "handle" /\ ~crashed
    /\ IF datapackHandler = "nil"
       THEN /\ hpc' = "recover"
            /\ herr' = HandlerPanicErr(hcur.id)
            /\ UNCHANGED handled
       ELSE \E res \in HandlerResults :
            /\ handled' = Append(handled, [id |-> hcur.id, res |-> res])
            /\ hpc' = HandlerAfter(res)
            /\ herr' = CASE res = "err" -> HandlerErr(hcur.id)
                         [] res = "panic" -> HandlerPanicErr(hcur.id)
                         [] OTHER -> herr
    /\ UNCHANGED <<topo, heap, crashed, wvars, hfields, loOutputStream, loOutputErr, hcur,
                   hreads, hputs, finalizerCalls, builds, mvars, cvars>>

\* Mutant of the Put calls: the error is dropped.
HandlerPutDrops(after) ==
    IF loOutputErr = Nil
    THEN /\ hpc' = "recover"
         /\ herr' = HandlerPanicErr(0)
         /\ UNCHANGED <<errs, hputs>>
    ELSE /\ hpc' = after
         /\ UNCHANGED <<errs, hputs, herr>>

\* outputErr.Put(herr) by the task, going to pc `after`; Put on a nil
\* ErrorPasser panics (recovered by the deferred function).
HandlerPut(after) ==
    IF loOutputErr = Nil
    THEN /\ hpc' = "recover"
         /\ herr' = HandlerPanicErr(0)
         /\ UNCHANGED <<errs, hputs>>
    ELSE /\ ErrorPasserCanPut(errs[loOutputErr])
         /\ errs' = [errs EXCEPT ![loOutputErr] = ErrorPasserPut(@, herr)]
         /\ hputs' = Append(hputs, herr)
         /\ hpc' = after
         /\ UNCHANGED herr

\* Mutant of line 139-140: the error is put and the main loop goes on (no break).
HandlerPutErrNoBreak ==
    /\ hpc = "put_herr" /\ ~crashed
    /\ HandlerPut("read")
    /\ UNCHANGED <<topo, streams, nalloc, crashed, wvars, hfields, loOutputStream,
                   loOutputErr, hcur, handled, hreads, finalizerCalls, builds, mvars, cvars>>

\* Line 139-140: outputErr.Put(err); break.
HandlerPutErr ==
    /\ hpc = "put_herr" /\ ~crashed
    /\ HandlerPut("check")
    /\ UNCHANGED <<topo, streams, nalloc, crashed, wvars, hfields, loOutputStream,
                   loOutputErr, hcur, handled, hreads, finalizerCalls, builds, mvars, cvars>>

\* Line 146-149: s.inputErr.Check() returns an error or done.
HandlerCheck ==
    /\ hpc = "check" /\ ~crashed
    /\ ErrorPasserCheckReturns(errs[inputErr])
    /\ IF ErrorPasserCheckDone(errs[inputErr])
       THEN hpc' = "close_err" /\ UNCHANGED <<errs, herr>>
       ELSE /\ herr' = Head(errs[inputErr].q)
            /\ errs' = [errs EXCEPT ![inputErr] = ErrorPasserTake(@)]
            /\ hpc' = "relay"
    /\ UNCHANGED <<topo, streams, nalloc, crashed, wvars, hfields, loOutputStream,
                   loOutputErr, hcur, handled, hreads, hputs, finalizerCalls, builds,
                   mvars, cvars>>

\* Mutant of line 145-153: after relaying an error the task reads datapacks again.
HandlerRelayResumes ==
    /\ hpc = "relay" /\ ~crashed
    /\ HandlerPut("read")
    /\ UNCHANGED <<topo, streams, nalloc, crashed, wvars, hfields, loOutputStream,
                   loOutputErr, hcur, handled, hreads, finalizerCalls, builds, mvars, cvars>>

\* Line 150-152: outputErr.Put(err) of an upstream error.
HandlerRelay ==
    /\ hpc = "relay" /\ ~crashed
    /\ HandlerPut("check")
    /\ UNCHANGED <<topo, streams, nalloc, crashed, wvars, hfields, loOutputStream,
                   loOutputErr, hcur, handled, hreads, finalizerCalls, builds, mvars, cvars>>

\* Mutant of line 116: the deferred function leaves s.inputStream open.
HandlerRecoverLeavesOpen ==
    /\ hpc = "recover" /\ ~crashed
    /\ IF inputStream = Nil
       THEN crashed' = TRUE /\ UNCHANGED <<streams, hpc>>
       ELSE /\ hpc' = "put_fault"
            /\ UNCHANGED <<streams, crashed>>
    /\ UNCHANGED <<topo, errs, nalloc, wvars, hfields, loOutputStream, loOutputErr, hcur,
                   herr, handled, hreads, hputs, finalizerCalls, builds, mvars, cvars>>

\* Line 114-116: the deferred function recovers the panic and closes
\* s.inputStream; a panic inside the deferred function ends the process.
HandlerRecover ==
    /\ hpc = "recover" /\ ~crashed
    /\ IF inputStream = Nil
       THEN crashed' = TRUE /\ UNCHANGED <<streams, hpc>>
       ELSE /\ streams' = [streams EXCEPT ![inputStream] = IOStreamClose(@)]
            /\ hpc' = "put_fault"
            /\ UNCHANGED crashed
    /\ UNCHANGED <<topo, errs, nalloc, wvars, hfields, loOutputStream, loOutputErr, hcur,
                   herr, handled, hreads, hputs, finalizerCalls, builds, mvars, cvars>>

\* Line 117: outputErr.Put(fmt.Errorf("SafeIOStreamHandler panicked, ...")).
HandlerPutFault ==
    /\ hpc = "put_fault" /\ ~crashed
    /\ IF loOutputErr = Nil
       THEN crashed' = TRUE /\ UNCHANGED <<errs, hputs, hpc>>
       ELSE /\ ErrorPasserCanPut(errs[loOutputErr])
            /\ errs' = [errs EXCEPT ![loOutputErr] = ErrorPasserPut(@, herr)]
            /\ hputs' = Append(hputs, herr)
            /\ hpc' = "close_err"
            /\ UNCHANGED crashed
    /\ UNCHANGED <<topo, streams, nalloc, wvars, hfields, loOutputStream, loOutputErr, hcur,
                   herr, handled, hreads, finalizerCalls, builds, mvars, cvars>>

\* Line 120: outputErr.Close().
HandlerCloseErr ==
    /\ hpc = "close_err" /\ ~crashed
    /\ IF loOutputErr = Nil
       THEN crashed' = TRUE /\ UNCHANGED <<errs, hpc>>
       ELSE /\ errs' = [errs EXCEPT ![loOutputErr] = ErrorPasserClose(@)]
            /\ hpc' = "close_stream"
            /\ UNCHANGED crashed
    /\ UNCHANGED <<topo, streams, nalloc, wvars, hfields, loOutputStream, loOutputErr, hcur,
                   herr, handled, hreads, hputs, finalizerCalls, builds, mvars, cvars>>

\* Mutant of line 121: the output Data Channel is left open.
HandlerCloseStreamSkipped ==
    /\ hpc = "close_stream" /\ ~crashed
    /\ IF loOutputStream = Nil
       THEN crashed' = TRUE /\ UNCHANGED hpc
       ELSE hpc' = "finalize" /\ UNCHANGED crashed
    /\ UNCHANGED <<topo, heap, wvars, hfields, loOutputStream, loOutputErr, hcur,
                   herr, handled, hreads, hputs, finalizerCalls, builds, mvars, cvars>>

\* Line 121: outputStream.Close().
HandlerCloseStream ==
    /\ hpc = "close_stream" /\ ~crashed
    /\ IF loOutputStream = Nil
       THEN crashed' = TRUE /\ UNCHANGED <<streams, hpc>>
       ELSE /\ streams' = [streams EXCEPT ![loOutputStream] = IOStreamClose(@)]
            /\ hpc' = "finalize"
            /\ UNCHANGED crashed
    /\ UNCHANGED <<topo, errs, nalloc, wvars, hfields, loOutputStream, loOutputErr, hcur,
                   herr, handled, hreads, hputs, finalizerCalls, builds, mvars, cvars>>

\* Line 122-124: the finalizer, when there is one; the task ends.
HandlerFinalize ==
    /\ hpc = "finalize" /\ ~crashed
    /\ finalizerCalls' = IF finalizer THEN finalizerCalls + 1 ELSE finalizerCalls
    /\ hpc' = "done"
    /\ UNCHANGED <<topo, heap, crashed, wvars, hfields, loOutputStream, loOutputErr, hcur,
                   herr, handled, hreads, hputs, builds, mvars, cvars>>

HandlerStep ==
    \/ BuildStream
    \/ HandlerStart
    \/ HandlerRead
    \/ HandlerHandle
    \/ HandlerPutErr
    \/ HandlerCheck
    \/ HandlerRelay
    \/ HandlerRecover
    \/ HandlerPutFault
    \/ HandlerCloseErr
    \/ HandlerCloseStream
    \/ HandlerFinalize

\* ====================================================== hand-made upstream
\* An upstream written by the application itself: it writes datapacks, puts
\* errors, and ends by closing its Error Channel, then its Data Channel.
MaxUpErrs == UpCap + 2

UpstreamWrite ==
    /\ mpc = "run" /\ ~crashed
    /\ mItems < MaxItems
    /\ IF streams[1].closed
       THEN mpc' = "close_err" /\ UNCHANGED streams
       ELSE /\ \E r \in BOOLEAN :
                 streams' = [streams EXCEPT ![1] = IOStreamOffer(@, Datapack(mItems + 1, r))]
            /\ mpc' = "write_wait"
    /\ UNCHANGED <<topo, errs, nalloc, crashed, wvars, hvars, mItems, mErrs, cvars>>

UpstreamWriteReturn ==
    /\ mpc = "write_wait" /\ ~crashed
    /\ IOStreamWriteReturns(streams[1])
    /\ IF IOStreamWriteResult(streams[1])
       THEN mpc' = "close_err" /\ UNCHANGED mItems
       ELSE mpc' = "run" /\ mItems' = mItems + 1
    /\ UNCHANGED <<topo, heap, crashed, wvars, hvars, mErrs, cvars>>

UpstreamPut ==
    /\ mpc = "run" /\ ~crashed
    /\ mErrs < MaxUpErrs
    /\ ErrorPasserCanPut(errs[1])
    /\ errs' = [errs EXCEPT ![1] = ErrorPasserPut(@, UpstreamErr(mErrs + 1))]
    /\ mErrs' = mErrs + 1
    /\ UNCHANGED <<topo, streams, nalloc, crashed, wvars, hvars, mpc, mItems, cvars>>

UpstreamCloseErr ==
    /\ mpc \in {"run", "close_err"} /\ ~crashed
    /\ errs' = [errs EXCEPT ![1] = ErrorPasserClose(@)]
    /\ mpc' = "close_stream"
    /\ UNCHANGED <<topo, streams, nalloc, crashed, wvars, hvars, mItems, mErrs, cvars>>

UpstreamCloseStream ==
    /\ mpc = "close_stream" /\ ~crashed
    /\ streams' = [streams EXCEPT ![1] = IOStreamClose(@)]
    /\ mpc' = "done"
    /\ UNCHANGED <<topo, errs, nalloc, crashed, wvars, hvars, mItems, mErrs, cvars>>

UpstreamStep ==
    \/ UpstreamWrite
    \/ UpstreamWriteReturn
    \/ UpstreamPut
    \/ UpstreamCloseErr
    \/ UpstreamCloseStream

\* ================================================================ consumer
\* The application reading the pair of the last stage: Read, Check, and an
\* early Close of the Data Channel.
ConsumerRead ==
    /\ cStream # Nil /\ ~sawClosed /\ ~cancelled /\ ~crashed
    /\ IOStreamReadReturns(streams[cStream])
    /\ IF IOStreamReadClosed(streams[cStream])
       THEN sawClosed' = TRUE /\ UNCHANGED <<recv, streams>>
       ELSE /\ recv' = Append(recv, streams[cStream].slot.id)
            /\ streams' = [streams EXCEPT ![cStream] = IOStreamTake(@)]
            /\ UNCHANGED sawClosed
    /\ UNCHANGED <<topo, errs, nalloc, crashed, wvars, hvars, mvars, cStream, cErr, cerrs,
                   sawDone, cancelled, readsAtCancel>>

ConsumerCheck ==
    /\ cErr # Nil /\ ~sawDone /\ ~crashed
    /\ ErrorPasserCheckReturns(errs[cErr])
    /\ IF ErrorPasserCheckDone(errs[cErr])
       THEN sawDone' = TRUE /\ UNCHANGED <<cerrs, errs>>
       ELSE /\ cerrs' = Append(cerrs, Head(errs[cErr].q))
            /\ errs' = [errs EXCEPT ![cErr] = ErrorPasserTake(@)]
            /\ UNCHANGED sawDone
    /\ UNCHANGED <<topo, streams, nalloc, crashed, wvars, hvars, mvars, cStream, cErr, recv,
                   sawClosed, cancelled, readsAtCancel>>

ConsumerCancel ==
    /\ cStream # Nil /\ ~sawClosed /\ ~cancelled /\ ~crashed
    /\ streams' = [streams EXCEPT ![cStream] = IOStreamClose(@)]
    /\ cancelled' = TRUE
    /\ readsAtCancel' = Len(hreads)
    /\ UNCHANGED <<topo, errs, nalloc, crashed, wvars, hvars, mvars, cStream, cErr, recv,
                   cerrs, sawClosed, sawDone>>

ConsumerStep ==
    \/ ConsumerRead
    \/ ConsumerCheck
    \/ ConsumerCancel

\* ==================================================================== Init
InitCommon ==
    /\ streams = [i \in ObjIds |-> NewIOStream]
    /\ errs = [i \in ObjIds |-> NewErrorPasser]
    /\ nalloc = 0
    /\ crashed = FALSE
    /\ wpc = "idle" /\ wOutputStream = Nil /\ wOutputErr = Nil
    /\ hist = <<>> /\ wcur = [d |-> NoItem, hasNext |-> FALSE] /\ wres = <<>>
    /\ outputStream = Nil /\ outputErr = Nil
    /\ loOutputStream = Nil /\ loOutputErr = Nil
    /\ hpc = "idle" /\ hcur = NoItem /\ herr = <<>>
    /\ handled = <<>> /\ hreads = <<>> /\ hputs = <<>>
    /\ finalizerCalls = 0 /\ builds = 0
    /\ mItems = 0 /\ mErrs = 0
    /\ cStream = Nil /\ cErr = Nil /\ recv = <<>> /\ cerrs = <<>>
    /\ sawClosed = FALSE /\ sawDone = FALSE /\ cancelled = FALSE
    /\ readsAtCancel = 0

InitDirect ==
    /\ topo = "direct"
    /\ InitCommon
    /\ inputStream = Nil /\ inputErr = Nil
    /\ datapackHandler = "nil" /\ finalizer = FALSE
    /\ mpc = "off"

NextDirect == WriterStep \/ ConsumerStep

SpecDirect == InitDirect /\ [][NextDirect]_vars

\* writer stage -> handler stage -> consumer
InitPipe ==
    /\ topo = "pipe"
    /\ InitCommon
    /\ inputStream = Nil /\ inputErr = Nil
    /\ datapackHandler \in {"nil", "set"} /\ finalizer \in BOOLEAN
    /\ mpc = "off"

NextPipe == WriterStep \/ HandlerStep \/ ConsumerStep

SpecPipe == InitPipe /\ [][NextPipe]_vars

\* hand-made upstream -> handler stage -> consumer
InitManual ==
    /\ topo = "manual"
    /\ streams = [i \in ObjIds |-> NewIOStream]
    /\ errs = [i \in ObjIds |-> IF i = 1 THEN NewErrorPasserWithCap(UpCap) ELSE NewErrorPasser]
    /\ nalloc = 1
    /\ crashed = FALSE
    /\ wpc = "idle" /\ wOutputStream = Nil /\ wOutputErr = Nil
    /\ hist = <<>> /\ wcur = [d |-> NoItem, hasNext |-> FALSE] /\ wres = <<>>
    /\ \E i \in {Nil, 1} : inputStream = i /\ inputErr = i
    /\ datapackHandler \in {"nil", "set"} /\ finalizer \in BOOLEAN
    /\ outputStream = Nil /\ outputErr = Nil
    /\ loOutputStream = Nil /\ loOutputErr = Nil
    /\ hpc = "idle" /\ hcur = NoItem /\ herr = <<>>
    /\ handled = <<>> /\ hreads = <<>> /\ hputs = <<>>
    /\ finalizerCalls = 0 /\ builds = 0
    /\ mpc = "run" /\ mItems = 0 /\ mErrs = 0
    /\ cStream = Nil /\ cErr = Nil /\ recv = <<>> /\ cerrs = <<>>
    /\ sawClosed = FALSE /\ sawDone = FALSE /\ cancelled = FALSE
    /\ readsAtCancel = 0

NextManual == UpstreamStep \/ HandlerStep \/ ConsumerStep

SpecManual == InitManual /\ [][NextManual]_vars

\* All three compositions together.
Init == InitDirect \/ InitPipe \/ InitManual

Next == WriterStep \/ HandlerStep \/ UpstreamStep \/ ConsumerStep

Spec == Init /\ [][Next]_vars

\* The writer task (everything of the stage but the application's Start call).
WriterTask ==
    \/ WriterNext
    \/ WriterPutErr
    \/ WriterRecover
    \/ WriterWrite
    \/ WriterWriteReturn
    \/ WriterCloseErr
    \/ WriterCloseStream

\* The handler task (everything of the stage but the application's calls).
HandlerTask ==
    \/ HandlerRead
    \/ HandlerHandle
    \/ HandlerPutErr
    \/ HandlerCheck
    \/ HandlerRelay
    \/ HandlerRecover
    \/ HandlerPutFault
    \/ HandlerCloseErr
    \/ HandlerCloseStream
    \/ HandlerFinalize

FairSpecPipe ==
    /\ SpecPipe
    /\ WF_vars(WriterTask)
    /\ WF_vars(HandlerTask)
    /\ WF_vars(ConsumerRead)
    /\ WF_vars(ConsumerCheck)

FairSpecManual ==
    /\ SpecManual
    /\ WF_vars(HandlerTask)
    /\ WF_vars(ConsumerRead)
    /\ WF_vars(ConsumerCheck)

\* Tasks are scheduled fairly, and the consumer keeps reading and checking.
FairSpecDirect ==
    /\ SpecDirect
    /\ WF_vars(WriterTask)
    /\ WF_vars(ConsumerRead)
    /\ WF_vars(ConsumerCheck)

\* ================================================================= claims
ItemIds(n) == [k \in 1..n |-> k]
IsPrefix(a, b) == Len(a) <= Len(b) /\ \A k \in 1..Len(a) : a[k] = b[k]
WriterCleaning == wpc \in {"close_err", "close_stream", "done"}

\* ---- C1
\* Every Next so far returned a datapack, with hasNext true for all but the last.
C1_Running ==
    /\ \A k \in 1..Len(hist) : hist[k].kind = "item"
    /\ \A k \in 1..(Len(hist) - 1) : hist[k].hasNext
\* The producer returned N >= 1 datapacks and the N-th came with hasNext false.
C1_Complete == hist # <<>> /\ C1_Running /\ ~hist[Len(hist)].hasNext
C1_Safe ==
    (wpc # "idle" /\ C1_Running) =>
        /\ errs[wOutputErr].q = <<>>
        /\ cerrs = <<>>
        /\ IsPrefix(recv, ItemIds(Len(hist)))
        /\ (sawClosed /\ ~cancelled) => (C1_Complete /\ recv = ItemIds(Len(hist)))
C1_Served ==
    \/ cancelled
    \/ /\ C1_Complete /\ sawClosed /\ sawDone
       /\ recv = ItemIds(Len(hist)) /\ cerrs = <<>>
\* C1: when the producer returns N datapacks, hasNext false on the N-th only, a
\* consumer that reads until closed receives exactly these N datapacks in order
\* and then closed, and the Error Channel reports done without ever holding an
\* error.
C1_ProducerDelivers == [](C1_Safe) /\ (C1_Complete ~> C1_Served)
C1_Witness ==
    /\ C1_Complete /\ Len(hist) >= 2 /\ sawClosed /\ sawDone /\ ~cancelled
    /\ recv = ItemIds(Len(hist)) /\ cerrs = <<>>

\* ---- C2
\* The k-th Next returned an error after k-1 datapacks with hasNext true.
C2_ErrAt(k) ==
    /\ hist[k].kind = "err"
    /\ \A j \in 1..(k - 1) : hist[j].kind = "item" /\ hist[j].hasNext
\* C2: when the k-th Next returns an error, the Data Channel yields exactly the
\* first k-1 datapacks and then closes, Next is not called again, and the Error
\* Channel yields that one error and then done.
C2_ProducerError ==
    \A k \in 1..Len(hist) : C2_ErrAt(k) =>
        /\ Len(hist) = k
        /\ wpc \in {"put_err", "close_err", "close_stream", "done"}
        /\ recv = ItemIds(k - 1)
        /\ IsPrefix(cerrs \o errs[wOutputErr].q, <<ProducerErr(k)>>)
        /\ errs[wOutputErr].closed => cerrs \o errs[wOutputErr].q = <<ProducerErr(k)>>
        /\ sawDone => cerrs = <<ProducerErr(k)>>
        /\ streams[wOutputStream].slot = NoItem
C2_Witness ==
    /\ \E k \in 2..Len(hist) : C2_ErrAt(k)
    /\ sawClosed /\ sawDone /\ ~cancelled
    /\ cerrs = <<ProducerErr(Len(hist))>> /\ recv = ItemIds(Len(hist) - 1)

\* ---- C3
\* A Write got alreadyClosed = TRUE.
C3_WriteSawClosed == \E j \in 1..Len(wres) : wres[j]
C3_Safe ==
    /\ Len(wres) <= Len(recv) + 1
    /\ \A j \in 1..Len(wres) : wres[j] = (j > Len(recv))
    /\ C3_WriteSawClosed => (cancelled /\ WriterCleaning)
    /\ (cancelled /\ wpc = "write") => streams[wOutputStream].closed
C3_BothClosed ==
    wpc = "done" /\ streams[wOutputStream].closed /\ errs[wOutputErr].closed
\* C3: once the consumer closed the Data Channel after reading m datapacks, the
\* writer's next Write (the m+1-th) reports alreadyClosed = TRUE; after that
\* Write the task calls Next no more and ends with both channels closed.
C3_ConsumerCloses ==
    /\ [](C3_Safe)
    /\ [][C3_WriteSawClosed => hist' = hist]_vars
    /\ (C3_WriteSawClosed ~> C3_BothClosed)
C3_Witness ==
    /\ cancelled /\ Len(recv) >= 1 /\ Len(wres) = Len(recv) + 1
    /\ wres[Len(wres)] /\ hist[Len(hist)].hasNext /\ C3_BothClosed

\* ------------------------------------------------- handler stage, helpers
\* The task runs with a handler on the output pair BuildStream made before Start.
HandlerWired ==
    /\ hpc # "idle" /\ datapackHandler = "set"
    /\ loOutputStream # Nil /\ loOutputErr # Nil
\* Every handler invocation so far returned nil.
HandlerAllNil == \A k \in 1..Len(handled) : handled[k].res = "nil"
Ids(seq) == [k \in 1..Len(seq) |-> seq[k].id]
WithRc(d) == d.rc
\* The datapacks (with a byte stream) read so far, but the one still in hand.
ReadForHandler ==
    LET r == Ids(SelectSeq(hreads, WithRc))
    IN IF hpc = "handle" THEN SubSeq(r, 1, Len(r) - 1) ELSE r
\* Every error the hand-made upstream put so far.
UpstreamPuts == [k \in 1..mErrs |-> UpstreamErr(k)]
\* The upstream error in the task's hand, between Check and Put.
InHand == IF hpc = "relay" THEN <<herr>> ELSE <<>>

\* The Data Channel the upstream writes.
UpstreamStream == IF topo = "manual" THEN 1 ELSE wOutputStream

\* ---- C4
\* C4 as stated: with a handler that always returns nil, a consumer reading the
\* stage's output Data Channel until closed receives the datapacks the upstream
\* wrote.
C4_Forwards ==
    (HandlerWired /\ HandlerAllNil /\ cStream = loOutputStream
        /\ sawClosed /\ ~cancelled) => recv = Ids(hreads)
\* C4 amended: with a handler that always returns nil, the stage hands every
\* datapack it reads from the upstream Data Channel (that has a byte stream) to
\* the handler, in upstream order, and writes none to an output Data Channel:
\* a consumer of the output receives no datapack, and observes closed only
\* after the upstream Data Channel is closed and every datapack the upstream
\* wrote was read.
C4_HandsToHandler ==
    (hpc # "idle" /\ datapackHandler = "set" /\ HandlerAllNil) =>
        /\ Ids(hreads) = ItemIds(Len(hreads))
        /\ Ids(handled) = ReadForHandler
        /\ \A i \in ObjIds : i # UpstreamStream => streams[i].slot = NoItem
        /\ recv = <<>>
        /\ (hpc \in {"finalize", "done"} \/ (sawClosed /\ ~cancelled)) =>
              /\ streams[inputStream].closed
              /\ Len(hreads) = mItems
C4_Witness ==
    /\ HandlerWired /\ HandlerAllNil /\ Len(handled) >= 2
    /\ cStream = loOutputStream /\ sawClosed /\ ~cancelled /\ recv = <<>>

\* ---- C5
C5_Safe ==
    (HandlerWired /\ HandlerAllNil) =>
        /\ hputs \o InHand \o errs[inputErr].q = UpstreamPuts
        /\ cErr = loOutputErr => cerrs \o errs[loOutputErr].q = hputs
        /\ errs[loOutputErr].closed =>
              (hputs = UpstreamPuts /\ errs[inputErr].closed /\ streams[inputStream].closed)
C5_UpstreamEnded == HandlerWired /\ mpc = "done"
C5_Done ==
    \/ ~HandlerAllNil
    \/ /\ HandlerWired
       /\ errs[loOutputErr].closed /\ hputs = UpstreamPuts
       /\ cErr = loOutputErr => (sawDone /\ cerrs = UpstreamPuts)
\* C5: with a handler that always returns nil, the stage relays every error of
\* the upstream Error Channel to its output Error Channel in the same order,
\* and once the upstream is closed the output Error Channel reports done.
C5_RelaysErrors == [](C5_Safe) /\ (C5_UpstreamEnded ~> C5_Done)
C5_Witness ==
    /\ HandlerWired /\ HandlerAllNil /\ mErrs >= 2 /\ Len(handled) >= 1
    /\ cErr = loOutputErr /\ sawDone /\ cerrs = UpstreamPuts

\* ---- C6
\* The last handler invocation panicked.
C6_Faulted == handled # <<>> /\ handled[Len(handled)].res = "panic"
C6_RecoveredPcs == {"put_fault", "close_err", "close_stream", "finalize", "done"}
C6_Recovered == hpc \in C6_RecoveredPcs
\* C6: when the handler panics on datapack j, the stage closes its upstream
\* Data Channel (an upstream Write still pending or made later gets
\* alreadyClosed = TRUE), puts exactly one fault error on its output Error
\* Channel, and reads no datapack after j.
C6_FaultClosesUpstream ==
    (HandlerWired /\ C6_Faulted) =>
        /\ hreads[Len(hreads)].id = handled[Len(handled)].id
        /\ hpc \in {"recover"} \cup C6_RecoveredPcs
        /\ C6_Recovered => streams[inputStream].closed
        /\ \A j \in 1..Len(wres) : wres[j] = (j > Len(hreads))
        /\ (C6_Recovered /\ wpc = "write_wait" /\ streams[inputStream].slot # NoItem) =>
              (IOStreamWriteReturns(streams[inputStream])
                 /\ IOStreamWriteResult(streams[inputStream]))
        /\ hputs = IF hpc \in {"recover", "put_fault"} THEN <<>>
                   ELSE <<HandlerPanicErr(handled[Len(handled)].id)>>
C6_Witness ==
    /\ HandlerWired /\ C6_Faulted /\ hpc = "done" /\ Len(handled) >= 2
    /\ wres # <<>> /\ wres[Len(wres)] /\ wpc = "done"

\* ---- C7
\* The handler returned an error.
C7_HandlerErred == handled # <<>> /\ handled[Len(handled)].res = "err"
C7_CleanedUp == HandlerWired /\ errs[loOutputErr].closed /\ streams[loOutputStream].closed
\* C7 as stated: after the handler returned an error, the stage goes on to close
\* its output Error Channel and Data Channel, whatever the upstream writer does.
C7_CleanupCompletes == (HandlerWired /\ C7_HandlerErred) ~> C7_CleanedUp
\* The same as a state property: the stage is never stuck short of its cleanup.
C7_NeverStuck ==
    (HandlerWired /\ C7_HandlerErred /\ ~C7_CleanedUp) => ENABLED (WriterTask \/ HandlerTask)

\* ---- C8
\* C8 as stated: no error is lost. Once the stage's output Error Channel is
\* closed, no error put on the upstream Error Channel is left unrelayed, on
\* whichever path the task ended.
C8_NoErrorLost ==
    (HandlerWired /\ errs[loOutputErr].closed) => errs[inputErr].q = <<>>

\* ---- C9
\* C9 as stated: a stage without a handler returns the upstream pair from
\* BuildStream, starts no task, and neither reads nor closes the upstream.
C9_PassThrough ==
    (datapackHandler = "nil" /\ inputStream # Nil) =>
        /\ cStream # Nil => (cStream = inputStream /\ cErr = inputErr)
        /\ hpc = "idle"
        /\ hreads = <<>>

\* ---- C10
C10_Putting == hpc \in {"put_herr", "relay", "put_fault"}
\* C10: the output Error Channel has the upstream capacity plus 2, and with at
\* most upstream-capacity upstream errors the errors the stage put never exceed
\* it: every Put finds room even if nobody reads the output Error Channel.
C10_PutNeverBlocks ==
    HandlerWired =>
        /\ ErrorPasserCap(errs[loOutputErr]) = ErrorPasserCap(errs[inputErr]) + 2
        /\ mErrs <= ErrorPasserCap(errs[inputErr]) =>
              /\ Len(hputs) <= ErrorPasserCap(errs[loOutputErr])
              /\ C10_Putting =>
                    (Len(hputs) < ErrorPasserCap(errs[loOutputErr])
                       /\ ErrorPasserCanPut(errs[loOutputErr]))
C10_Witness ==
    /\ HandlerWired /\ hpc = "done" /\ cerrs = <<>> /\ ~sawDone
    /\ mErrs = ErrorPasserCap(errs[inputErr])
    /\ Len(hputs) = mErrs + 1
    /\ Len(errs[loOutputErr].q) = mErrs + 1

\* ---- C11
C11_Safe ==
    /\ finalizerCalls <= 1
    /\ finalizerCalls = 1 =>
          (finalizer /\ hpc = "done" /\ loOutputErr # Nil /\ loOutputStream # Nil)
    /\ (hpc = "done" /\ finalizer) => finalizerCalls = 1
    /\ (hpc \in {"finalize", "done"}) =>
          (errs[loOutputErr].closed /\ streams[loOutputStream].closed)
    /\ (hpc = "close_stream" /\ ~crashed) => errs[loOutputErr].closed
    /\ (hpc \notin {"close_stream", "finalize", "done"} /\ loOutputErr # Nil) =>
          ~errs[loOutputErr].closed
\* C11: the finalizer of a started stage runs once when the task ends, on the
\* normal, handler-error and fault paths, and only after the task closed its
\* output Error Channel and then its output Data Channel.
C11_FinalizerLast ==
    /\ [](C11_Safe)
    /\ [][finalizerCalls' # finalizerCalls =>
            (finalizerCalls = 0 /\ hpc = "finalize"
               /\ errs[loOutputErr].closed /\ streams[loOutputStream].closed)]_vars
C11_Witness ==
    /\ finalizer /\ finalizerCalls = 1 /\ hpc = "done"
    /\ handled # <<>> /\ handled[Len(handled)].res = "err"
    /\ errs[loOutputErr].closed /\ streams[loOutputStream].closed

\* ---- C12
\* C12 as stated: after Next returned an error or hasNext = false, with a
\* datapack or with nil, Next is not called again: only the last call on record
\* may have returned that.
C12_StopsCalling ==
    \A k \in 1..(Len(hist) - 1) : hist[k].kind \in {"item", "nil"} /\ hist[k].hasNext

\* ---- C13
\* The last Next panicked.
C13_Panicked == hist # <<>> /\ hist[Len(hist)].kind = "panic"
\* Datapacks Next returned so far.
ItemsReturned == Cardinality({k \in 1..Len(hist) : hist[k].kind = "item"})
C13_Safe ==
    C13_Panicked =>
        /\ ~crashed
        /\ wpc \in {"recover", "close_err", "close_stream", "done"}
        /\ Len(wres) = ItemsReturned
        /\ streams[wOutputStream].slot = NoItem
        /\ cerrs \o errs[wOutputErr].q =
              IF wpc = "recover" THEN <<>> ELSE <<WriterPanicErr(Len(hist))>>
        /\ errs[wOutputErr].closed => wpc \in {"close_stream", "done"}
\* C13: when Next panics the task recovers: it puts exactly one fault error,
\* makes no further Next call or Write, and then closes both channels.
C13_WriterFault ==
    /\ [](C13_Safe)
    /\ [][C13_Panicked => (hist' = hist /\ wres' = wres)]_vars
    /\ (C13_Panicked ~> C3_BothClosed)
C13_Witness ==
    /\ C13_Panicked /\ Len(hist) >= 2 /\ C3_BothClosed /\ sawDone
    /\ cerrs = <<WriterPanicErr(Len(hist))>>

\* ---- C14
\* The last Write got alreadyClosed = TRUE (the consumer's closure).
C14_ClosedByConsumer == wres # <<>> /\ wres[Len(wres)]
\* The errors the task must have put: the producer's error or the fault error.
C14_ErrorsPut ==
    IF hist # <<>> /\ hist[Len(hist)].kind = "err" THEN <<ProducerErr(Len(hist))>>
    ELSE IF C13_Panicked THEN <<WriterPanicErr(Len(hist))>>
    ELSE <<>>
\* C14: on every exit path the cleanup closes the Error Channel before the
\* Data Channel: when the task has closed its Data Channel, the Error Channel
\* is closed and holds every error the task put.
C14_ErrClosedFirst ==
    /\ wpc \in {"close_stream", "done"} =>
          (errs[wOutputErr].closed /\ cerrs \o errs[wOutputErr].q = C14_ErrorsPut)
    /\ wpc = "done" => streams[wOutputStream].closed
    /\ (wpc \notin {"idle", "done"} /\ streams[wOutputStream].closed) => cancelled
    /\ (wpc \notin {"idle", "close_stream", "done"}) => ~errs[wOutputErr].closed
C14_Witness ==
    /\ wpc = "done" /\ C14_ClosedByConsumer /\ errs[wOutputErr].closed
    /\ streams[wOutputStream].closed

\* ---- C15
\* C15 as stated: a stage with a handler that is started before its output pair
\* was built runs its task on the pair Start builds (the one stored in the
\* stage), as if BuildStream had been called first.
C15_StartBuilds ==
    (hpc # "idle" /\ datapackHandler = "set" /\ inputStream # Nil) =>
        /\ outputStream # Nil /\ outputErr # Nil
        /\ loOutputStream = outputStream /\ loOutputErr = outputErr
        /\ ~crashed

\* ---- C16
\* The k-th handler invocation returned an error.
C16_ErrAt(k) == handled[k].res = "err"
\* C16: when the handler returns an error for datapack j, the task puts that
\* error once on its output Error Channel, reads the upstream Data Channel no
\* more, never calls the handler again, and leaves the upstream Data Channel
\* open.
C16_HandlerErrorStops ==
    HandlerWired => \A k \in 1..Len(handled) : C16_ErrAt(k) =>
        /\ k = Len(handled)
        /\ hreads[Len(hreads)].id = handled[k].id
        /\ hpc \in {"put_herr", "check", "relay", "close_err", "close_stream",
                    "finalize", "done"}
        /\ IF hpc = "put_herr" THEN hputs = <<>>
           ELSE /\ hputs # <<>> /\ hputs[1] = HandlerErr(handled[k].id)
                /\ \A i \in 2..Len(hputs) : hputs[i] # HandlerErr(handled[k].id)
        /\ streams[inputStream].closed => wpc = "done"
        /\ \A j \in 1..Len(wres) : ~wres[j]
C16_Witness ==
    /\ HandlerWired /\ Len(handled) >= 2 /\ C16_ErrAt(Len(handled))
    /\ hpc = "done" /\ Len(hputs) >= 2 /\ wpc = "done"

\* ---- C17
\* C17: the handler is called once for each datapack read that has a byte
\* stream, in the order read and one at a time; a datapack without a byte
\* stream is not handed to the handler and the loop reads on.
C17_HandlerPerItem ==
    (hpc # "idle" /\ datapackHandler = "set") =>
        /\ Ids(handled) = ReadForHandler
        /\ hpc = "handle" =>
              (hreads # <<>> /\ hcur = hreads[Len(hreads)] /\ hcur.rc)
        /\ (hreads # <<>> /\ ~hreads[Len(hreads)].rc) => hpc # "handle"
        /\ Ids(hreads) = ItemIds(Len(hreads))
C17_Witness ==
    /\ hpc = "done" /\ datapackHandler = "set" /\ Len(hreads) >= 2
    /\ ~hreads[1].rc /\ hreads[2].rc /\ Ids(handled) = <<2>>

\* ---- C18
IsUpstreamErr(e) == e[1] = "upstream"
\* C18: no upstream error is relayed while the main loop runs; on the output
\* Error Channel a handler error comes before every relayed upstream error.
C18_RelayAfterMainLoop ==
    /\ hpc \in {"idle", "read", "handle", "put_herr"} => hputs = <<>>
    /\ \A i \in 1..Len(hputs) :
          /\ IsUpstreamErr(hputs[i]) => hpc \notin {"idle", "read", "handle", "put_herr"}
          /\ (i > 1 /\ ~IsUpstreamErr(hputs[i])) =>
                (hputs[i][1] = "SafeIOStreamHandler panicked")
          /\ hputs[i][1] = "handler" => i = 1
C18_Witness ==
    /\ Len(hputs) >= 3 /\ hputs[1][1] = "handler"
    /\ IsUpstreamErr(hputs[2]) /\ IsUpstreamErr(hputs[3]) /\ hpc = "done"

\* ---- C19
C19_AllEnded ==
    /\ hpc = "done" /\ wpc = "done"
    /\ streams[wOutputStream].closed /\ errs[wOutputErr].closed
    /\ streams[loOutputStream].closed /\ errs[loOutputErr].closed
\* A writer that ended after an item with hasNext = TRUE was stopped by a Write
\* that returned alreadyClosed = TRUE, and the handler's recovery closed that
\* Data Channel.
C19_StoppedByClose ==
    (HandlerWired /\ wpc = "done" /\ hist # <<>> /\ hist[Len(hist)].kind = "item"
       /\ hist[Len(hist)].hasNext) =>
        /\ wres # <<>> /\ wres[Len(wres)]
        /\ C6_Faulted /\ C6_Recovered
\* C19: after a panic of the handler no task is left behind: the writer's
\* pending or next Write returns alreadyClosed = TRUE, the writer task ends with
\* both its channels closed, and the handler task ends too.
C19_FaultLeaksNoTask ==
    /\ (HandlerWired /\ C6_Faulted) ~> C19_AllEnded
    /\ [](C19_StoppedByClose)
C19_Witness ==
    /\ HandlerWired /\ C6_Faulted /\ C19_AllEnded
    /\ wres # <<>> /\ wres[Len(wres)] /\ hist[Len(hist)].hasNext

\* ---- C20
\* The consumer closed the output Data Channel of the handler stage.
C20_OutputCancelled == HandlerWired /\ cancelled /\ cStream = loOutputStream
\* The reads, made after the consumer's Close, of a datapack with a byte stream.
C20_HandedAfterCancel == {k \in (readsAtCancel + 1)..Len(hreads) : hreads[k].rc}
\* The first of them (0 when there is none yet): the datapack whose hand-over
\* to the output would meet the closed Data Channel.
C20_NoticedAt ==
    IF C20_HandedAfterCancel = {} THEN 0
    ELSE CHOOSE k \in C20_HandedAfterCancel : \A m \in C20_HandedAfterCancel : k <= m
\* C20 as stated: after the consumer closed the handler stage's output Data
\* Channel, the cancellation reaches the writer at the next writes: the stage
\* reads no upstream datapack after the first one with a byte stream that it
\* read after the Close, and the writer completes at most one more Write,
\* which returns alreadyClosed = TRUE (so that it stops calling Next).
C20_CancelPropagates ==
    (C20_OutputCancelled /\ C20_NoticedAt # 0) =>
        /\ Len(hreads) = C20_NoticedAt
        /\ Len(wres) <= C20_NoticedAt + 1
        /\ Len(wres) = C20_NoticedAt + 1 => wres[Len(wres)]
\* The ids of the datapacks Next returned, in order (a datapack's id is the
\* number of the Next call that returned it).
C20_IsItem(k) == hist[k].kind = "item"
C20_ReturnedIds == SelectSeq([k \in 1..Len(hist) |-> k], C20_IsItem)
\* The main loop of the handler task has ended.
C20_MainLoopEnded == hpc \notin {"idle", "read", "handle"}
\* C20 amended: the consumer closing the handler stage's output Data Channel
\* early does not reach the writer.  A Write of the writer stage returns
\* alreadyClosed = TRUE only after the handler stage closed the upstream Data
\* Channel on a panic of its handler.  The stage leaves its main loop only when
\* the upstream Data Channel is closed, or its handler returned an error or
\* panicked.  When both tasks have ended with no handler error or panic, the
\* stage has read every datapack the producer returned, although its output
\* was closed, and no Write returned alreadyClosed = TRUE.
C20_CancelStaysLocal ==
    HandlerWired =>
        /\ \A j \in 1..Len(wres) : wres[j] => (C6_Faulted /\ C6_Recovered)
        /\ streams[inputStream].closed => (wpc = "done" \/ (C6_Faulted /\ C6_Recovered))
        /\ C20_MainLoopEnded =>
              (streams[inputStream].closed \/ C7_HandlerErred \/ C6_Faulted)
        /\ (C20_OutputCancelled /\ hpc = "done" /\ wpc = "done"
              /\ ~C7_HandlerErred /\ ~C6_Faulted) =>
                /\ Ids(hreads) = C20_ReturnedIds
                /\ Len(wres) = ItemsReturned
                /\ \A j \in 1..Len(wres) : ~wres[j]
C20_Witness ==
    /\ C20_OutputCancelled /\ readsAtCancel = 0
    /\ hpc = "done" /\ wpc = "done" /\ ~C7_HandlerErred /\ ~C6_Faulted
    /\ Len(handled) >= 2 /\ Len(wres) >= 2 /\ \A j \in 1..Len(wres) : ~wres[j]
====
